---------------------------- MODULE Spec2Model ----------------------------
(***************************************************************************)
(* Model of the chatbot autograder                                         *)
(* (src/public_assignments/a2_autograde_chatbot.py).                       *)
(*                                                                         *)
(* Part 1: the execution harness, run_program_with_inputs.  The harness    *)
(* patches builtins.input with a mock whose side_effect is the scripted    *)
(* list plus padding, redirects sys.stdout into a buffer, runs the         *)
(* submission with runpy and returns (output, error, call_count).          *)
(*                                                                         *)
(* Optional values (Python None) are sequences of length 0 or 1.           *)
(* Text is a sequence of tokens, so that "contains" and "count" can be     *)
(* computed.                                                               *)
(***************************************************************************)
EXTENDS Integers, Sequences, FiniteSets

VARIABLES
    \* process-wide interpreter state
    builtins_input,   \* what builtins.input is bound to
    sys_stdout,       \* what sys.stdout is bound to
    sys_path,         \* sys.path
    \* the arguments of the current/last call of run_program_with_inputs
    h_args,
    \* one activation of run_program_with_inputs
    hpc,              \* "idle" | "running" | "ended" | "returned" | "propagated"
    side_effect_values,
    mock_idx,         \* how many side_effect values the mock has handed out
    call_count,       \* mocked_input.call_count
    buf,              \* io.StringIO buffer (sequence of tokens)
    error,            \* None or the trace text
    patch_original,   \* what mock.patch saved (None outside the with block)
    old_target,       \* what redirect_stdout saved (None outside the with block)
    sys_modules,      \* the helper modules imported so far in this process
    \* the submission being run
    prog,             \* the loaded program: a sequence of operations
    ip,               \* index of the next operation
    served,           \* the values input() has returned to the submission
    outcome,          \* how run_module ended: None or <<exception>>
    result,           \* None or <<the returned (stdout_text, error, count)>>
    \* the caller of the harness
    entry_env,        \* interpreter state observed when the call was made
    prev,             \* None or <<how the previous direct call ended, and its result>>
    \* the files
    fs,               \* the current directory: file name -> None or <<file>>
    shadow,           \* None or <<module of the graded name found elsewhere on sys.path>>
    subject,          \* a parsed submission handed to the structural analysis
    found,            \* None or <<the flags check_ast_structures computed for subject>>
    \* main and grade_file
    pc,               \* "direct" | "main" | "grade" | "runtime" | "report" | "done" | "crashed"
    argv_all,         \* "--all" in args
    files,            \* main's list of files
    fi,               \* index in files of the file being graded
    ri,               \* index in RUBRIC of the next item
    total_items,
    passed_items,
    all_results,
    console           \* what the grader has printed on the real standard output

hvars == <<builtins_input, sys_stdout, sys_path, h_args, hpc, side_effect_values,
           mock_idx, call_count, buf, error, patch_original, old_target, prog, ip,
           served, outcome, result, entry_env, prev, sys_modules>>

fvars == <<fs, shadow, subject, found>>

gvars == <<pc, argv_all, files, fi, ri, total_items, passed_items, all_results, console>>

vars == <<hvars, fvars, gvars>>

None == <<>>
Some(v) == <<v>>
IsNone(o) == o = <<>>

Max(a, b) == IF a >= b THEN a ELSE b

\* [x] * n
Repeat(x, n) == [i \in 1..n |-> x]

-----------------------------------------------------------------------------
(* Bounds of the harness specification *)
MaxInputs == 2
MaxPad == 2
MaxOps == 2

\* check_runtime_behavior's script
sample_inputs == <<"yes", "blue", "pizza", "goodbye">>
DefaultPadExtra == 20

-----------------------------------------------------------------------------
(* Exceptions.  An exception is a record [name, isException]: isException   *)
(* says whether its class derives from Exception (ValueError, ImportError,  *)
(* SyntaxError, StopIteration) or only from BaseException                   *)
(* (SystemExit, KeyboardInterrupt).                                         *)
Exc(name) ==
    [name |-> name,
     isException |-> name \notin {"SystemExit", "KeyboardInterrupt", "GeneratorExit"}]

\* traceback.format_exc(): the trace text names the exception
format_exc(e) == <<"Traceback (most recent call last):", e.name>>

-----------------------------------------------------------------------------
(* The operations a submission performs, as the harness sees them.          *)
(*   "input"      x = input(...)            (advances)                      *)
(*   "ask"        print("...?")                                            *)
(*   "echo"       print(x) for the last value read                          *)
(*   "shout"      print(x.upper())                                          *)
(*   "say"        print("...") with no question mark                        *)
(*   "exit"       sys.exit()/exit()/quit()  -> SystemExit                   *)
(*   "raise"      int("blue")               -> ValueError                   *)
(*   "interrupt"  raise KeyboardInterrupt   -> not an Exception             *)
(*   "hijack"     sys.stdout = <own file>                                   *)
(*   "ask_forever"  while True: input(...)                                  *)
(*   "spin"       while True: pass                                          *)
(*   "import"     import helper, a module that prints when it is first      *)
(*                imported (as "import this" does)                          *)
HarnessOps ==
    {"input", "echo", "exit", "raise", "interrupt", "hijack", "ask_forever", "import"}

Upper(s) ==
    CASE s = "yes" -> "YES"
      [] s = "blue" -> "BLUE"
      [] s = "pizza" -> "PIZZA"
      [] s = "goodbye" -> "GOODBYE"
      [] OTHER -> s

\* str.lower() on a token
Lower(s) ==
    CASE s = "YES" -> "yes"
      [] s = "BLUE" -> "blue"
      [] s = "PIZZA" -> "pizza"
      [] s = "GOODBYE" -> "goodbye"
      [] OTHER -> s

-----------------------------------------------------------------------------
(* A submission file.                                                       *)
(*   readable  open(path, encoding="utf-8").read() succeeds                 *)
(*   lines     the text, line by line (see the text checks)                 *)
(*   syntax    None, or the diagnostic of the SyntaxError ast.parse raises  *)
(*   tree      the ast.Module of the text (when syntax is None)             *)
(*   load      None, or the name of the exception runpy raises before the   *)
(*             first statement runs                                         *)
(*   ops       what the program does when it runs                           *)
(* The file system maps a file name to None (absent) or <<file>>.           *)
File(readable, lines, syntax, tree, load, ops) ==
    [readable |-> readable, lines |-> lines, syntax |-> syntax, tree |-> tree,
     load |-> load, ops |-> ops]

\* runpy.run_module(modname): the module found on sys.path.  "" (the current
\* directory) is searched first; a name absent there may still be found in
\* another entry of sys.path (shadow).
FindModule(filesystem, shadowfile, filename) ==
    IF ~IsNone(filesystem[filename]) THEN filesystem[filename] ELSE shadowfile

-----------------------------------------------------------------------------
(* run_program_with_inputs, lines 165-193 *)

\* variant, for comparison: pads with the first scripted value instead of the last
FillerFirst(inputs, pad_value) ==
    IF Len(inputs) > 0
    THEN (IF IsNone(pad_value) THEN inputs[1] ELSE pad_value[1])
    ELSE (IF IsNone(pad_value) THEN "" ELSE pad_value[1])

\* lines 178-181
Filler(inputs, pad_value) ==
    IF Len(inputs) > 0
    THEN (IF IsNone(pad_value) THEN inputs[Len(inputs)] ELSE pad_value[1])
    ELSE (IF IsNone(pad_value) THEN "" ELSE pad_value[1])

\* line 182
SideEffectValues(inputs, pad_extra, pad_value) ==
    inputs \o Repeat(Filler(inputs, pad_value), Max(0, pad_extra))

\* lines 174-175
PathWithCwd(path) ==
    IF \E i \in 1..Len(path) : path[i] = "" THEN path ELSE <<"">> \o path

\* lines 170-187: set up, install the mock and the redirection, start the module
EnterHarness(filename, inputs, pad_extra, pad_value) ==
    LET m == FindModule(fs, shadow, filename)
        loadExc == IF IsNone(m) THEN Some(Exc("ImportError"))
                   ELSE IF ~IsNone(m[1].load) THEN Some(Exc(m[1].load[1]))
                   ELSE None
    IN  /\ h_args' = [filename |-> filename, inputs |-> inputs,
                      pad_extra |-> pad_extra, pad_value |-> pad_value]
        /\ entry_env' = [input |-> builtins_input, stdout |-> sys_stdout,
                         path |-> sys_path]
        /\ buf' = <<>>
        /\ error' = None
        /\ sys_path' = PathWithCwd(sys_path)
        /\ side_effect_values' = SideEffectValues(inputs, pad_extra, pad_value)
        /\ patch_original' = Some(builtins_input)
        /\ builtins_input' = "mock"
        /\ mock_idx' = 0
        /\ call_count' = 0
        /\ old_target' = Some(sys_stdout)
        /\ sys_stdout' = "buf"
        /\ served' = <<>>
        /\ result' = None
        /\ ip' = 1
        /\ outcome' = loadExc
        /\ prog' = IF IsNone(loadExc) THEN m[1].ops ELSE <<>>
        /\ hpc' = IF IsNone(loadExc) THEN "running" ELSE "ended"
        /\ sys_modules' = sys_modules

\* print(tok) inside the submission: written to whatever sys.stdout is bound to
Written(target, buffer, tok) ==
    IF target = "buf" THEN Append(buffer, tok) ELSE buffer

\* the mock called: call_count is incremented, then next(side_effect)
\* (unittest.mock: StopIteration when the iterator is exhausted)
MockHasNext == mock_idx < Len(side_effect_values)

LastServed == IF Len(served) > 0 THEN served[Len(served)] ELSE "hello"

\* One operation of the submission, run under the harness (line 187).
SubmissionStep ==
    /\ hpc = "running"
    /\ LET atEnd == ip > Len(prog)
           op == IF atEnd THEN "end" ELSE prog[ip]
           asks == op \in {"input", "ask_forever"}
           raised ==
               CASE asks /\ ~MockHasNext -> Some(Exc("StopIteration"))
                 [] op = "exit" -> Some(Exc("SystemExit"))
                 [] op = "raise" -> Some(Exc("ValueError"))
                 [] op = "interrupt" -> Some(Exc("KeyboardInterrupt"))
                 [] OTHER -> None
       IN  /\ call_count' = IF asks THEN call_count + 1 ELSE call_count
           /\ mock_idx' = IF asks /\ MockHasNext THEN mock_idx + 1 ELSE mock_idx
           /\ served' = IF asks /\ MockHasNext
                         THEN Append(served, side_effect_values[mock_idx + 1])
                         ELSE served
           /\ buf' = CASE op = "ask" -> Written(sys_stdout, buf, "?")
                       [] op = "say" -> Written(sys_stdout, buf, "hello")
                       [] op = "echo" -> Written(sys_stdout, buf, LastServed)
                       [] op = "shout" -> Written(sys_stdout, buf, Upper(LastServed))
                       [] op = "import" /\ "helper" \notin sys_modules ->
                              Written(sys_stdout, buf, "helper loaded")
                       [] OTHER -> buf
           /\ sys_modules' = IF op = "import" THEN sys_modules \cup {"helper"}
                              ELSE sys_modules
           /\ sys_stdout' = IF op = "hijack" THEN "student" ELSE sys_stdout
           /\ outcome' = raised
           /\ hpc' = IF atEnd \/ ~IsNone(raised) THEN "ended" ELSE "running"
           /\ ip' = IF atEnd \/ ~IsNone(raised) \/ op \in {"ask_forever", "spin"}
                     THEN ip ELSE ip + 1
    /\ UNCHANGED <<builtins_input, sys_path, h_args, side_effect_values, error,
                   patch_original, old_target, prog, result, entry_env, prev>>
    /\ UNCHANGED <<fvars, gvars>>

\* variant, for comparison: the exhausted mock's StopIteration swallowed like a controlled exit
ErrorAfterQuietStop(o) ==
    IF IsNone(o) THEN None
    ELSE IF o[1].name \in {"SystemExit", "StopIteration"} THEN None
    ELSE IF o[1].isException THEN Some(format_exc(o[1]))
    ELSE None

\* variant, for comparison: without the "except SystemExit: pass" clause ahead of the handler,
\* and the handler widened to BaseException
ErrorAfterExitFaults(o) ==
    IF IsNone(o) THEN None
    ELSE IF o[1].name = "SystemExit" \/ o[1].isException THEN Some(format_exc(o[1]))
    ELSE None

\* lines 188-191: which exceptions the try statement handles
\* (except SystemExit: pass / except Exception: error = traceback.format_exc())
ErrorAfter(o) ==
    IF IsNone(o) THEN None
    ELSE IF o[1].name = "SystemExit" THEN None
    ELSE IF o[1].isException THEN Some(format_exc(o[1]))
    ELSE None

\* variant, for comparison: no "except Exception" clause
PropagatesUnhandled(o) ==
    /\ ~IsNone(o)
    /\ o[1].name # "SystemExit"

Propagates(o) ==
    /\ ~IsNone(o)
    /\ o[1].name # "SystemExit"
    /\ ~o[1].isException

\* redirect_stdout.__exit__ (line 185) and mock.patch.__exit__ (line 184): both
\* run on every way out of the with blocks
\* variant, for comparison: the target put back only after a run that raised nothing
StdoutAfterCleanExit(o, saved, current) == IF IsNone(o) THEN saved[1] ELSE current

StdoutAfterExit(o, saved, current) == saved[1]

InputAfterExit(o, saved, current) == saved[1]

\* lines 188-193: the handlers, the two __exit__ calls, and the return
HarnessExit ==
    /\ hpc = "ended"
    /\ error' = ErrorAfter(outcome)
    /\ sys_stdout' = StdoutAfterExit(outcome, old_target, sys_stdout)
    /\ old_target' = None
    /\ builtins_input' = InputAfterExit(outcome, patch_original, builtins_input)
    /\ patch_original' = None
    /\ IF Propagates(outcome)
       THEN /\ hpc' = "propagated"
            /\ result' = None
            /\ pc' = IF pc = "runtime" THEN "crashed" ELSE pc
       ELSE /\ hpc' = "returned"
            /\ result' = Some([out |-> buf, err |-> ErrorAfter(outcome),
                                input_calls |-> call_count])
            /\ pc' = pc
    /\ UNCHANGED <<sys_path, h_args, side_effect_values, mock_idx, call_count, buf,
                   prog, ip, served, outcome, entry_env, prev, sys_modules>>
    /\ UNCHANGED <<fvars, argv_all, files, fi, ri, total_items, passed_items,
                   all_results, console>>

-----------------------------------------------------------------------------
(* Syntax trees (module ast).  A node is a record                           *)
(*   type   the node class ("If", "Call", "Name", ...)                      *)
(*   name   Name.id, Attribute.attr, BoolOp/UnaryOp/BinOp.op,               *)
(*          ImportFrom.module, or the type of a Constant's value            *)
(*   names  Compare.ops, the alias names of Import/ImportFrom               *)
(*   pos    the source position (what tells two equal-looking calls apart)  *)
(*   f1, f2, f3  the child nodes, grouped in the order of the class's       *)
(*          _fields (for If: test, body, orelse)                            *)
Mk(type, name, names, pos, f1, f2, f3) ==
    [type |-> type, name |-> name, names |-> names, pos |-> pos,
     f1 |-> f1, f2 |-> f2, f3 |-> f3]

Module(stmts) == Mk("Module", "", <<>>, 0, <<>>, stmts, <<>>)
If(t, stmts, els) == Mk("If", "", <<>>, 0, <<t>>, stmts, els)
For(target, iter, stmts) == Mk("For", "", <<>>, 0, <<target, iter>>, stmts, <<>>)
Expr(v) == Mk("Expr", "", <<>>, 0, <<v>>, <<>>, <<>>)
Assign(targets, v) == Mk("Assign", "", <<>>, 0, targets, <<v>>, <<>>)
AnnAssign(target, annotation, optvalue) ==
    Mk("AnnAssign", "", <<>>, 0, <<target, annotation>>, optvalue, <<>>)
Import(aliases) == Mk("Import", "", aliases, 0, <<>>, <<>>, <<>>)
ImportFrom(module, aliases) == Mk("ImportFrom", module, aliases, 0, <<>>, <<>>, <<>>)
Pass == Mk("Pass", "", <<>>, 0, <<>>, <<>>, <<>>)
While(t, stmts) == Mk("While", "", <<>>, 0, <<t>>, stmts, <<>>)
Raise(e) == Mk("Raise", "", <<>>, 0, <<e>>, <<>>, <<>>)
Call(pos, f, arguments) == Mk("Call", "", <<>>, pos, <<f>>, arguments, <<>>)
Name(id) == Mk("Name", id, <<>>, 0, <<>>, <<>>, <<>>)
Attribute(v, attr) == Mk("Attribute", attr, <<>>, 0, <<v>>, <<>>, <<>>)
Str(text) == Mk("Constant", "str", <<text>>, 0, <<>>, <<>>, <<>>)
Bool(text) == Mk("Constant", "bool", <<text>>, 0, <<>>, <<>>, <<>>)
Num(text) == Mk("Constant", "int", <<text>>, 0, <<>>, <<>>, <<>>)
BoolOp(op, values) == Mk("BoolOp", op, <<>>, 0, <<>>, values, <<>>)
UnaryOp(op, operand) == Mk("UnaryOp", op, <<>>, 0, <<operand>>, <<>>, <<>>)
BinOp(l, op, r) == Mk("BinOp", op, <<>>, 0, <<l>>, <<r>>, <<>>)
Compare(l, ops, comparators) == Mk("Compare", "", ops, 0, <<l>>, comparators, <<>>)
List(elts) == Mk("List", "", <<>>, 0, elts, <<>>, <<>>)

isinstance(node, type) == node.type = type

\* field accessors
body(node) == node.f2
orelse(node) == node.f3
func(call) == call.f1[1]
args(call) == call.f2

Range(seq) == {seq[i] : i \in 1..Len(seq)}

iter_child_nodes(node) == node.f1 \o node.f2 \o node.f3

\* the concatenation of seqs[lo], ..., seqs[hi]
RECURSIVE Flatten(_, _, _)
Flatten(seqs, lo, hi) ==
    IF lo > hi THEN <<>>
    ELSE IF lo = hi THEN seqs[lo]
    ELSE LET mid == (lo + hi) \div 2
         IN  Flatten(seqs, lo, mid) \o Flatten(seqs, mid + 1, hi)

\* ast.walk: breadth first, the node itself first.  The deque of ast.walk
\* yields the tree level by level, each level in order.
RECURSIVE WalkLevels(_)
WalkLevels(level) ==
    IF Len(level) = 0 THEN <<>>
    ELSE level \o WalkLevels(Flatten([i \in 1..Len(level) |-> iter_child_nodes(level[i])],
                                      1, Len(level)))

walk(node) == WalkLevels(<<node>>)

\* variant, for comparison: a chain is followed through any else-branch that starts with an If
RECURSIVE count_elif_chain_loose(_)
count_elif_chain_loose(if_node) ==
    IF Len(orelse(if_node)) >= 1 /\ isinstance(orelse(if_node)[1], "If")
    THEN 1 + count_elif_chain_loose(orelse(if_node)[1])
    ELSE 0

\* lines 53-60
RECURSIVE count_elif_chain(_)
count_elif_chain(if_node) ==
    IF Len(orelse(if_node)) = 1 /\ isinstance(orelse(if_node)[1], "If")
    THEN 1 + count_elif_chain(orelse(if_node)[1])
    ELSE 0

\* lines 140-142: the last If of the chain
RECURSIVE chain_end(_)
chain_end(node) ==
    IF Len(orelse(node)) = 1 /\ isinstance(orelse(node)[1], "If")
    THEN chain_end(orelse(node)[1])
    ELSE node

\* variant, for comparison: the final else must be a single statement
has_final_else_single(node) ==
    LET end == chain_end(node)
    IN  Len(orelse(end)) = 1 /\ ~isinstance(orelse(end)[1], "If")

\* line 143
has_final_else(node) ==
    LET end == chain_end(node)
    IN  Len(orelse(end)) > 0 /\ ~isinstance(orelse(end)[1], "If")

\* lines 127-149: the four flags of check_ast_structures
ast_flags(tree) ==
    LET nodes == Range(walk(tree))
        ifs == {n \in nodes : isinstance(n, "If")}
    IN  [has_if |-> ifs # {},
         has_if_else |-> \E n \in ifs : Len(orelse(n)) > 0,
         has_if_elif_else_with_two_elifs |->
             \E n \in ifs : count_elif_chain(n) >= 2 /\ has_final_else(n),
         has_or_condition |->
             \E n \in nodes : isinstance(n, "BoolOp") /\ n.name = "Or"]

-----------------------------------------------------------------------------
(* Text.  A file's text is a sequence of lines; a line is a record           *)
(*   len    its length                                                       *)
(*   marks  what the regular expressions of the text checks find in it:      *)
(*     "title"    (program|title)\s*:        "name"  (name)\s*:              *)
(*     "date"     (date)\s*:                 "hash"  a '#' anywhere          *)
(*     "comment"  strip() starts with '#' and is longer than 1               *)
(*     "triple_whole"  starts with a triple quote that closes on the line    *)
(*     "triple_open"   starts with a triple quote that does not              *)
(*     "triple_close"  holds a closing triple quote                          *)
Line(len, marks) == [len |-> len, marks |-> marks]

HeaderLines == 40
LineLimit == 100

CheckResult(name, passed, message) ==
    [name |-> name, passed |-> passed, message |-> message]

\* lines 46-51: open() and read(); only FileNotFoundError is handled
safe_read(path) ==
    IF IsNone(fs[path]) THEN [exc |-> None, val |-> None]
    ELSE IF ~fs[path][1].readable
         THEN [exc |-> Some(Exc("UnicodeDecodeError")), val |-> None]
         ELSE [exc |-> None, val |-> fs[path]]

\* "not src": None or the empty text
NoSource(src) == IsNone(src) \/ Len(src[1].lines) = 0

\* variant, for comparison: a SyntaxError answered with an empty module instead of an error
parse_tree_lenient(src) ==
    IF NoSource(src) THEN [tree |-> None, err |-> Some(<<"Could not read file.">>)]
    ELSE IF ~IsNone(src[1].syntax)
         THEN [tree |-> Some(Module(<<>>)), err |-> None]
         ELSE [tree |-> Some(src[1].tree), err |-> None]

\* lines 62-68; returns [tree, err]
parse_tree(src) ==
    IF NoSource(src) THEN [tree |-> None, err |-> Some(<<"Could not read file.">>)]
    ELSE IF ~IsNone(src[1].syntax)
         THEN [tree |-> None, err |-> Some(<<"SyntaxError: ", src[1].syntax[1]>>)]
         ELSE [tree |-> Some(src[1].tree), err |-> None]

\* lines 74-80 (os.path.exists)
check_file_exists(filename) ==
    CheckResult(<<"File named ", filename, " exists">>, ~IsNone(fs[filename]),
                <<"Create ", filename, " (exact name, no spaces).">>)

\* lines 82-97
check_header_comment(filename) ==
    LET src == safe_read(filename).val
        lines == IF NoSource(src) THEN <<>> ELSE src[1].lines
        top == SubSeq(lines, 1, IF Len(lines) < HeaderLines THEN Len(lines) ELSE HeaderLines)
        has(mark) == \E i \in 1..Len(top) : mark \in top[i].marks
        has_title == has("title") \/ has("hash")
        has_name == has("name")
        has_date == has("date")
    IN  IF NoSource(src)
        THEN CheckResult(<<"Header includes title, name, date">>, FALSE,
                         <<"Could not read the file.">>)
        ELSE CheckResult(<<"Header includes title, name, date">>,
                         has_title /\ has_name /\ has_date,
                         <<"Include header comments with Program/Title, Name, and Date near the top.">>)

\* lines 99-110
check_line_length(filename) ==
    LET src == safe_read(filename).val
        lines == IF NoSource(src) THEN <<>> ELSE src[1].lines
        long_lines == {i \in 1..Len(lines) : lines[i].len > LineLimit}
    IN  IF NoSource(src)
        THEN CheckResult(<<"Line length <= limit chars">>, FALSE,
                         <<"Could not read the file.">>)
        ELSE IF long_lines # {}
             THEN CheckResult(<<"Line length <= limit chars">>, FALSE,
                              <<"Lines over limit chars: ", "<line numbers>">>)
             ELSE CheckResult(<<"Line length <= limit chars">>, TRUE, <<>>)

\* lines 112-163
check_ast_structures(filename) ==
    LET src == safe_read(filename).val
        parsed == parse_tree(src)
        flags == ast_flags(parsed.tree[1])
        missing ==
            (IF ~flags.has_if THEN <<"a standalone if">> ELSE <<>>)
            \o (IF ~flags.has_if_else THEN <<"an if/else">> ELSE <<>>)
            \o (IF ~flags.has_if_elif_else_with_two_elifs
                THEN <<"an if/elif/else with >=2 elifs">> ELSE <<>>)
            \o (IF ~flags.has_or_condition THEN <<"a condition using 'or'">> ELSE <<>>)
    IN  IF NoSource(src)
        THEN CheckResult(<<"Uses required if/elif/else patterns and 'or'">>, FALSE,
                         <<"Could not read the file.">>)
        ELSE IF ~IsNone(parsed.err)
        THEN CheckResult(<<"Python parses successfully">>, FALSE, parsed.err[1])
        ELSE IF Len(missing) > 0
        THEN CheckResult(<<"Uses required if/elif/else patterns and 'or'">>, FALSE,
                         <<"Missing: ">> \o missing)
        ELSE CheckResult(<<"Uses required if/elif/else patterns and 'or'">>, TRUE, <<>>)

-----------------------------------------------------------------------------
(* build_analysis, lines 243-361 *)

IsCallTo(node, id) ==
    /\ isinstance(node, "Call")
    /\ isinstance(func(node), "Name")
    /\ func(node).name = id

IsStrConstant(node) == isinstance(node, "Constant") /\ node.name = "str"

\* lines 236-241
is_booleanish(expr) ==
    \/ isinstance(expr, "Compare")
    \/ isinstance(expr, "BoolOp")
    \/ isinstance(expr, "UnaryOp") /\ expr.name = "Not"

\* variant, for comparison: only a call that is the whole value counts
InputCallDirect(value) == IF IsCallTo(value, "input") THEN {value} ELSE {}

\* lines 335-337: the calls of input anywhere inside an assignment's value
InputCallsIn(value) == {c \in Range(walk(value)) : IsCallTo(c, "input")}

\* lines 272-361: the feature record of a parsed tree
analysis(tree) ==
    LET order == walk(tree)
        nodes == Range(order)
        calls == {n \in nodes : isinstance(n, "Call")}
        \* lines 288-290
        calls_input == SelectSeq(order, LAMBDA n : IsCallTo(n, "input"))
        \* lines 325-330
        str_vars ==
            {t.name : t \in (UNION {Range(n.f1) :
                n \in {a \in nodes : isinstance(a, "Assign") /\ IsStrConstant(a.f2[1])}})
                \cap {x \in nodes : isinstance(x, "Name")}}
        \* lines 333-337
        assigned_input_nodes ==
            UNION {InputCallsIn(n.f2[1]) :
                   n \in {a \in nodes : /\ a.type \in {"Assign", "AnnAssign"}
                                        /\ Len(a.f2) > 0}}
        \* lines 340-342
        total_input_calls == Len(calls_input)
        assigned_input_calls ==
            Len(SelectSeq(calls_input, LAMBDA c : c \in assigned_input_nodes))
        unassigned_input_calls == total_input_calls - assigned_input_calls
        is_stry(n) == IsStrConstant(n) \/ (isinstance(n, "Name") /\ n.name \in str_vars)
        \* lines 278-282
        uses_random_choice ==
            \E n \in calls :
                \/ /\ isinstance(func(n), "Attribute")
                   /\ func(n).name = "choice"
                   /\ isinstance(func(n).f1[1], "Name")
                   /\ func(n).f1[1].name = "random"
                \/ /\ isinstance(func(n), "Name")
                   /\ func(n).name = "choice"
        \* lines 292-295
        import_random ==
            \E n \in nodes : isinstance(n, "Import") /\ "random" \in Range(n.names)
        \* lines 297-301
        importfrom_random_choice ==
            \E n \in nodes : /\ isinstance(n, "ImportFrom")
                             /\ n.name = "random"
                             /\ Range(n.names) \cap {"choice", "*"} # {}
    IN  [str_vars |-> str_vars,
         list_of_strings_exists |->
             \E n \in nodes : /\ isinstance(n, "List")
                              /\ Len(n.f1) > 0
                              /\ \A e \in Range(n.f1) : IsStrConstant(e),
         import_random |-> import_random,
         importfrom_random_choice |-> importfrom_random_choice,
         uses_random_choice |-> uses_random_choice,
         uses_in_operator |->
             \E n \in nodes : /\ isinstance(n, "Compare")
                              /\ Range(n.names) \cap {"In", "NotIn"} # {},
         uses_string_method |->
             \E n \in calls : /\ isinstance(func(n), "Attribute")
                              /\ func(n).name \in {"strip", "lower", "upper"},
         has_for_loop |-> \E n \in nodes : isinstance(n, "For"),
         has_nested_if |->
             \E n \in nodes : /\ isinstance(n, "If")
                              /\ \E sub \in Range(body(n)) : isinstance(sub, "If"),
         uses_boolop_and |-> \E n \in nodes : isinstance(n, "BoolOp") /\ n.name = "And",
         uses_boolop_or |-> \E n \in nodes : isinstance(n, "BoolOp") /\ n.name = "Or",
         has_comparison |-> \E n \in nodes : isinstance(n, "Compare"),
         prints_boolean_literal_or_expr |->
             \E n \in calls : /\ IsCallTo(n, "print")
                              /\ \E arg \in Range(args(n)) :
                                    \/ isinstance(arg, "Constant") /\ arg.name = "bool"
                                    \/ is_booleanish(arg),
         prints_string_var |->
             \E n \in calls : /\ IsCallTo(n, "print")
                              /\ \E arg \in Range(args(n)) :
                                    isinstance(arg, "Name") /\ arg.name \in str_vars,
         concatenates_strings |->
             \E n \in nodes : /\ isinstance(n, "BinOp")
                              /\ n.name = "Add"
                              /\ (is_stry(n.f1[1]) \/ is_stry(n.f2[1])),
         has_input_saved |-> assigned_input_calls >= 1,
         has_input_unsaved |-> unassigned_input_calls >= 1,
         random_choice_ok |->
             uses_random_choice /\ (import_random \/ importfrom_random_choice)]

\* lines 243-249 and 361; returns [info, err]
build_analysis(filename) ==
    LET src == safe_read(filename).val
        parsed == parse_tree(src)
    IN  IF NoSource(src)
        THEN [info |-> None, err |-> Some(<<"Could not read the file.">>)]
        ELSE IF ~IsNone(parsed.err)
        THEN [info |-> None, err |-> parsed.err]
        ELSE [info |-> Some(analysis(parsed.tree[1])), err |-> None]

\* a check's results when build_analysis gave an error: every item fails with it
Failing(names, err) == [i \in 1..Len(names) |-> CheckResult(names[i], FALSE, err)]

\* lines 365-372
check_comments_present(filename) ==
    LET src == safe_read(filename).val
        lines == IF NoSource(src) THEN <<>> ELSE src[1].lines
        has_hash_comment == \E i \in 1..Len(lines) : "comment" \in lines[i].marks
        has_top_string ==
            \E i \in 1..Len(lines) :
                \/ "triple_whole" \in lines[i].marks
                \/ /\ "triple_open" \in lines[i].marks
                   /\ \E j \in (i + 1)..Len(lines) : "triple_close" \in lines[j].marks
    IN  IF NoSource(src)
        THEN CheckResult(<<"Comments / pseudocode present (Week 1-2)">>, FALSE,
                         <<"Could not read the file.">>)
        ELSE CheckResult(<<"Comments / pseudocode present (Week 1-2)">>,
                         has_hash_comment \/ has_top_string,
                         <<"Add at least one comment or pseudocode block.">>)

\* lines 374-384
check_input_both_ways(filename) ==
    LET a == build_analysis(filename)
        names == << <<"Input saved to a variable (Week 2)">>,
                    <<"Input also used without saving (Week 2)">> >>
    IN  IF ~IsNone(a.err) THEN Failing(names, a.err[1])
        ELSE <<CheckResult(names[1], a.info[1].has_input_saved,
                           <<"Do something like: answer = input('...')">>),
               CheckResult(names[2], a.info[1].has_input_unsaved,
                           <<"Also call input(...) directly in a different place.">>)>>

\* lines 386-402
check_variables_and_strings(filename) ==
    LET a == build_analysis(filename)
        names == << <<"Assign a string to a variable (Week 2)">>,
                    <<"Print a string variable (Week 2)">>,
                    <<"Concatenate strings (Week 2)">> >>
    IN  IF ~IsNone(a.err) THEN Failing(names, a.err[1])
        ELSE <<CheckResult(names[1], a.info[1].str_vars # {},
                           <<"Example: greeting = 'Hello'">>),
               CheckResult(names[2], a.info[1].prints_string_var,
                           <<"Example: print(greeting)">>),
               CheckResult(names[3], a.info[1].concatenates_strings,
                           <<"Use '+' with strings or string vars">>)>>

\* lines 404-416
check_lists_and_randomness(filename) ==
    LET a == build_analysis(filename)
        names == << <<"Create a list of strings (Week 2)">>,
                    <<"Use random.choice() (with import) (Week 2)">> >>
    IN  IF ~IsNone(a.err) THEN Failing(names, a.err[1])
        ELSE <<CheckResult(names[1], a.info[1].list_of_strings_exists,
                           <<"Example: foods = ['pizza','taco','salad']">>),
               CheckResult(names[2], a.info[1].random_choice_ok,
                           <<"Import random or from random import choice, then call it.">>)>>

\* lines 418-423
check_in_operator(filename) ==
    LET a == build_analysis(filename)
        name == <<"Use 'in' on strings/lists (Week 3)">>
    IN  IF ~IsNone(a.err) THEN CheckResult(name, FALSE, a.err[1])
        ELSE CheckResult(name, a.info[1].uses_in_operator,
                         <<"Use 'in' or 'not in' in a condition.">>)

\* lines 425-430
check_string_methods(filename) ==
    LET a == build_analysis(filename)
        name == <<"Use .strip() / .lower() / .upper() (Week 3)">>
    IN  IF ~IsNone(a.err) THEN CheckResult(name, FALSE, a.err[1])
        ELSE CheckResult(name, a.info[1].uses_string_method,
                         <<"Call one of these on a string, e.g., name.strip().lower().">>)

\* lines 432-437
check_for_loop(filename) ==
    LET a == build_analysis(filename)
        name == <<"Use a for loop (Week 3)">>
    IN  IF ~IsNone(a.err) THEN CheckResult(name, FALSE, a.err[1])
        ELSE CheckResult(name, a.info[1].has_for_loop,
                         <<"Add a for loop over a list or range(...).">>)

\* lines 439-444
check_nested_conditionals(filename) ==
    LET a == build_analysis(filename)
        name == <<"Nested conditionals (Week 3)">>
    IN  IF ~IsNone(a.err) THEN CheckResult(name, FALSE, a.err[1])
        ELSE CheckResult(name, a.info[1].has_nested_if,
                         <<"Place an if-statement inside another if-statement's body.">>)

\* lines 446-461
check_boolean_logic_and_comparisons(filename) ==
    LET a == build_analysis(filename)
        names == << <<"Use 'and' or 'or' (Week 2-3)">>,
                    <<"Use a comparison like '==' (Week 2-3)">>,
                    <<"Print a Boolean (literal or expression) (Week 2-3)">> >>
    IN  IF ~IsNone(a.err) THEN Failing(names, a.err[1])
        ELSE <<CheckResult(names[1],
                           a.info[1].uses_boolop_and \/ a.info[1].uses_boolop_or,
                           <<"Include boolean logic in a condition.">>),
               CheckResult(names[2], a.info[1].has_comparison,
                           <<"Compare values, e.g., color == 'blue'.">>),
               CheckResult(names[3], a.info[1].prints_boolean_literal_or_expr,
                           <<"Do: print(True) / print(False) or print(name == 'alex').">>)>>

\* variant, for comparison: after a fault only the first result fails; the other two are
\* evaluated on what was captured
runtime_results_partial(res) ==
    LET out == res.out
        qmarks == Cardinality({i \in 1..Len(out) : out[i] = "?"})
        asks_three == qmarks >= 3 \/ res.input_calls >= 3
        used_input ==
            \E v \in {"yes", "blue", "pizza", "goodbye"} :
                \E i \in 1..Len(out) : Lower(out[i]) = Lower(v)
    IN  <<IF ~IsNone(res.err)
          THEN CheckResult(<<"Program executes without crashing">>, FALSE,
                           <<"Program crashed.">> \o res.err[1])
          ELSE CheckResult(<<"Program executes without crashing">>, TRUE, <<>>),
          CheckResult(<<"Asks at least 3 questions">>, asks_three,
                      <<"Make sure you prompt the user 3+ times (use '?').">>),
          CheckResult(<<"Uses the user's input in a response">>, used_input,
                      <<"Include the user's answer in a printed line.">>)>>

\* lines 205-223: check_runtime_behavior once run_program_with_inputs has returned
runtime_results(res) ==
    LET out == res.out
        qmarks == Cardinality({i \in 1..Len(out) : out[i] = "?"})
        asks_three == qmarks >= 3 \/ res.input_calls >= 3
        used_input ==
            \E v \in {"yes", "blue", "pizza", "goodbye"} :
                \E i \in 1..Len(out) : Lower(out[i]) = Lower(v)
    IN  IF ~IsNone(res.err)
        THEN <<CheckResult(<<"Program executes without crashing">>, FALSE,
                           <<"Program crashed.">> \o res.err[1]),
               CheckResult(<<"Asks at least 3 questions">>, FALSE,
                           <<"Program did not complete execution.">>),
               CheckResult(<<"Uses the user's input in a response">>, FALSE,
                           <<"Program did not complete execution.">>)>>
        ELSE <<CheckResult(<<"Program executes without crashing">>, TRUE, <<>>),
               CheckResult(<<"Asks at least 3 questions">>, asks_three,
                           <<"Make sure you prompt the user 3+ times (use '?').">>),
               CheckResult(<<"Uses the user's input in a response">>, used_input,
                           <<"Include the user's answer in a printed line.">>)>>

\* lines 470-488: the keys of RUBRIC, in order
RUBRIC ==
    <<"exists", "header", "linelen", "ast", "runtime", "comments", "input_both",
      "vars_strings", "lists_random", "in_op", "str_methods", "for_loop",
      "nested_if", "bool_logic_cmp_print">>

\* whether RUBRIC's function for key reads the file with safe_read
ReadsFile(key) == key \notin {"exists", "runtime"}

\* RUBRIC's function for key (other than "runtime"), applied to filename; a
\* single CheckResult is given as a list of one (lines 504-517 treat both alike)
rubric_func(key, filename) ==
    CASE key = "exists" -> <<check_file_exists(filename)>>
      [] key = "header" -> <<check_header_comment(filename)>>
      [] key = "linelen" -> <<check_line_length(filename)>>
      [] key = "ast" -> <<check_ast_structures(filename)>>
      [] key = "comments" -> <<check_comments_present(filename)>>
      [] key = "input_both" -> check_input_both_ways(filename)
      [] key = "vars_strings" -> check_variables_and_strings(filename)
      [] key = "lists_random" -> check_lists_and_randomness(filename)
      [] key = "in_op" -> <<check_in_operator(filename)>>
      [] key = "str_methods" -> <<check_string_methods(filename)>>
      [] key = "for_loop" -> <<check_for_loop(filename)>>
      [] key = "nested_if" -> <<check_nested_conditionals(filename)>>
      [] key = "bool_logic_cmp_print" -> check_boolean_logic_and_comparisons(filename)

-----------------------------------------------------------------------------
(* main and grade_file, lines 494-548 *)

\* the names main can meet, as sorted() orders them
SortedNames == <<"chatbot.py", "chatbot2.py", "chatbot3.py", "chatbot4.py">>

\* print(...) by the grader: a line on whatever sys.stdout is bound to
Printed(out, entries) == IF sys_stdout = "console" THEN out \o entries ELSE out

Entry(kind, text, passed, n, total) ==
    [kind |-> kind, text |-> text, passed |-> passed, n |-> n, total |-> total]

\* lines 39-44
print_check(res) ==
    Entry("check", res.name \o (IF res.passed THEN <<>> ELSE <<" -- ">> \o res.message),
          res.passed, 0, 0)

\* lines 533-548, up to the first grade_file
Main ==
    /\ pc = "main"
    /\ LET listing == SelectSeq(SortedNames,
                                LAMBDA f : f \in DOMAIN fs /\ ~IsNone(fs[f]))
       IN  IF argv_all /\ Len(listing) = 0
           THEN /\ console' = Printed(console,
                        <<Entry("none", <<"No chatbot*.py files found.">>, FALSE, 0, 0)>>)
                /\ files' = <<>>
                /\ fi' = 0
                /\ pc' = "done"
           ELSE /\ console' = console
                /\ files' = IF argv_all THEN listing ELSE <<"chatbot.py">>
                /\ fi' = 1
                /\ pc' = "grade_file"
    /\ UNCHANGED <<argv_all, ri, total_items, passed_items, all_results>>
    /\ UNCHANGED <<hvars, fvars>>

\* lines 495-500
GradeFileStart ==
    /\ pc = "grade_file"
    /\ console' = Printed(console, <<Entry("banner", <<" Grading ", files[fi]>>, FALSE, 0, 0)>>)
    /\ total_items' = 0
    /\ passed_items' = 0
    /\ all_results' = <<>>
    /\ ri' = 1
    /\ pc' = "rubric"
    /\ UNCHANGED <<argv_all, files, fi>>
    /\ UNCHANGED <<hvars, fvars>>

\* variant, for comparison: passed_items incremented for every result
AccumulateCountingAll(results) ==
    /\ total_items' = total_items + Len(results)
    /\ passed_items' = passed_items + Len(results)
    /\ all_results' = all_results \o results
    /\ console' = Printed(console, [i \in 1..Len(results) |-> print_check(results[i])])

\* lines 504-517: count, print and keep the results of one rubric item
Accumulate(results) ==
    /\ total_items' = total_items + Len(results)
    /\ passed_items' =
           passed_items + Cardinality({i \in 1..Len(results) : results[i].passed})
    /\ all_results' = all_results \o results
    /\ console' = Printed(console, [i \in 1..Len(results) |-> print_check(results[i])])

\* lines 502-517 for an item other than "runtime"; an exception raised by the
\* item's function is not handled anywhere and ends the process
RubricStep ==
    /\ pc = "rubric"
    /\ ri <= Len(RUBRIC)
    /\ RUBRIC[ri] # "runtime"
    /\ LET key == RUBRIC[ri]
           filename == files[fi]
           exc == IF ReadsFile(key) THEN safe_read(filename).exc ELSE None
       IN  IF ~IsNone(exc)
           THEN /\ pc' = "crashed"
                /\ UNCHANGED <<ri, total_items, passed_items, all_results, console>>
           ELSE /\ Accumulate(rubric_func(key, filename))
                /\ ri' = ri + 1
                /\ pc' = pc
    /\ UNCHANGED <<argv_all, files, fi>>
    /\ UNCHANGED <<hvars, fvars>>

\* lines 201-203: check_runtime_behavior calls the harness
RuntimeCall ==
    /\ pc = "rubric"
    /\ ri <= Len(RUBRIC)
    /\ RUBRIC[ri] = "runtime"
    /\ EnterHarness(files[fi], sample_inputs, DefaultPadExtra, None)
    /\ pc' = "runtime"
    /\ UNCHANGED <<prev, fvars>>
    /\ UNCHANGED <<argv_all, files, fi, ri, total_items, passed_items, all_results,
                   console>>

\* lines 205-223, then lines 504-510 for the three results
RuntimeReturn ==
    /\ pc = "runtime"
    /\ hpc = "returned"
    /\ Accumulate(runtime_results(result[1]))
    /\ ri' = ri + 1
    /\ pc' = "rubric"
    /\ hpc' = "idle"
    /\ UNCHANGED <<builtins_input, sys_stdout, sys_path, h_args, side_effect_values,
                   mock_idx, call_count, buf, error, patch_original, old_target, prog,
                   ip, served, outcome, result, entry_env, prev, sys_modules>>
    /\ UNCHANGED <<argv_all, files, fi>>
    /\ UNCHANGED fvars

\* variant, for comparison: every result that carries a message is listed
AnyWithMessage(results) == SelectSeq(results, LAMBDA r : Len(r.message) > 0)

\* line 525
FailedWithMessage(results) ==
    SelectSeq(results, LAMBDA r : ~r.passed /\ Len(r.message) > 0)

\* lines 519-530, and main's loop going to the next file (lines 547-548)
Report ==
    /\ pc = "rubric"
    /\ ri > Len(RUBRIC)
    /\ LET failed == FailedWithMessage(all_results)
           score == Entry("score", <<files[fi]>>, passed_items = total_items,
                          passed_items, total_items)
           hints == IF Len(failed) = 0 THEN <<>>
                    ELSE <<Entry("hints", <<"Hints:">>, FALSE, 0, 0)>>
                         \o [i \in 1..Len(failed) |->
                               Entry("hint", failed[i].message, FALSE, 0, 0)]
       IN  console' = Printed(console, <<score>> \o hints)
    /\ fi' = fi + 1
    /\ pc' = IF fi < Len(files) THEN "grade_file" ELSE "done"
    /\ UNCHANGED <<argv_all, files, ri, total_items, passed_items, all_results>>
    /\ UNCHANGED <<hvars, fvars>>

-----------------------------------------------------------------------------
(* Sample submissions *)

Code == Line(30, {})
Header ==
    <<Line(40, {"title", "hash", "comment"}),   \* # Program: ...
      Line(18, {"name", "hash", "comment"}),    \* # Name: A. Learner
      Line(18, {"date", "hash", "comment"})>>   \* # Date: 2025-09-10

PrintStmt(pos, arguments) == Expr(Call(pos, Name("print"), arguments))
Input(pos, prompt) == Call(pos, Name("input"), <<Str(prompt)>>)
Method(pos, v, attr) == Call(pos, Attribute(v, attr), <<>>)
Eq(l, r) == Compare(l, <<"Eq">>, <<r>>)
In(l, r) == Compare(l, <<"In">>, <<r>>)

\* src/public_assignments/chatbot.py
ChatbotTree ==
    Module(<<
      Import(<<"random">>),
      Assign(<<Name("greet")>>, Str("Hello")),
      PrintStmt(141, <<Name("greet")>>),
      Assign(<<Name("name")>>, Method(151, Input(152, "What's your name? "), "strip")),
      PrintStmt(161, <<BinOp(BinOp(Str("Nice to meet you, "), "Add", Name("name")),
                         "Add", Str("!"))>>),
      Assign(<<Name("colors")>>, List(<<Str("blue"), Str("green"), Str("red"), Str("purple")>>)),
      PrintStmt(191, <<Str("Random color pick:"),
                   Call(192, Attribute(Name("random"), "choice"), <<Name("colors")>>)>>),
      Assign(<<Name("mood")>>,
             Method(211, Method(212, Input(213, "How are you feeling today? "), "strip"),
                    "lower")),
      PrintStmt(221, <<Input(222, "What should I call you today? ")>>),
      If(BoolOp("Or", <<In(Str("good"), Name("mood")), In(Str("great"), Name("mood"))>>),
         <<PrintStmt(251, <<Str("Yay!")>>),
           Assign(<<Name("fav")>>,
                  Method(261, Method(262, Input(263, "Favorite color? "), "strip"), "lower")),
           If(Eq(Name("fav"), Str("blue")), <<PrintStmt(281, <<Bool("True")>>)>>,
              <<If(Eq(Name("fav"), Str("red")), <<PrintStmt(301, <<Str("Fiery!")>>)>>,
                   <<If(Eq(Name("fav"), Str("green")), <<PrintStmt(321, <<Str("Chill.")>>)>>,
                        <<PrintStmt(341, <<Str("Nice choice!")>>)>>)>>)>>)>>,
         <<PrintStmt(361, <<Str("Hope things improve.")>>),
           Assign(<<Name("pet")>>,
                  Method(371, Method(372, Input(373, "Cat or dog? "), "strip"), "lower")),
           If(BoolOp("And", <<Eq(Name("pet"), Str("cat")), In(Str("a"), Name("pet"))>>),
              <<PrintStmt(391, <<Str("Meow crew.")>>)>>,
              <<If(Eq(Name("pet"), Str("dog")), <<PrintStmt(411, <<Str("Woof pack.")>>)>>,
                   <<If(Eq(Name("pet"), Str("parrot")),
                        <<PrintStmt(431, <<Str("Talkative friend.")>>)>>,
                        <<PrintStmt(451, <<Str("All animals are cool.")>>)>>)>>)>>)>>),
      For(Name("i"), Call(481, Name("range"), <<Num("3")>>),
          <<PrintStmt(491, <<Str("Loop idx:"), Name("i")>>)>>)
    >>)

\* chatbot.py run with yes, blue, pizza, goodbye: the mood "blue" takes the
\* else branch
Chatbot ==
    File(TRUE, Header \o <<Line(40, {"hash", "comment"}), Code, Code, Code>>, None,
         ChatbotTree, None,
         <<"say", "input", "echo", "say", "input", "input", "echo", "say", "input",
           "say", "say">>)

\* age = int(input("Age? ")) / print(age + 1): a ValueError partway
Converter ==
    File(TRUE, Header \o <<Code, Code, Code>>, None,
         Module(<<PrintStmt(41, <<Str("Hello?")>>),
                  Assign(<<Name("age")>>, Call(51, Name("int"), <<Input(52, "Age? ")>>)),
                  PrintStmt(61, <<BinOp(Name("age"), "Add", Num("1"))>>)>>),
         None, <<"ask", "input", "raise">>)

\* asks, echoes in upper case, then calls sys.exit()
Leaver ==
    File(TRUE, <<Code, Code, Code, Code, Code>>, None,
         Module(<<Import(<<"sys">>),
                  PrintStmt(21, <<Str("Your name?")>>),
                  Assign(<<Name("who")>>, Input(31, "")),
                  PrintStmt(41, <<Method(42, Name("who"), "upper")>>),
                  Expr(Call(51, Attribute(Name("sys"), "exit"), <<>>)),
                  PrintStmt(61, <<Str("never printed?")>>)>>),
         None, <<"ask", "input", "shout", "exit", "ask">>)

\* a text that does not parse: "if x" without a colon after a comment line
Unparsable ==
    File(TRUE, <<Line(12, {"hash", "comment"}), Line(4, {})>>,
         Some("expected ':' (<unknown>, line 2)"), <<>>, Some("SyntaxError"), <<>>)

\* the empty file
Empty == File(TRUE, <<>>, None, Module(<<>>), None, <<>>)

\* bytes that are not UTF-8: open().read() raises UnicodeDecodeError, runpy a
\* SyntaxError
Undecodable == File(FALSE, <<Line(9, {})>>, None, <<>>, Some("SyntaxError"), <<>>)

\* while True: input("more? ")
Asker ==
    File(TRUE, <<Code, Code>>, None,
         Module(<<While(Bool("True"), <<Expr(Input(21, "more? "))>>)>>),
         None, <<"ask_forever">>)

\* print("bye") / raise KeyboardInterrupt
Interrupter ==
    File(TRUE, <<Code, Code>>, None,
         Module(<<PrintStmt(11, <<Str("bye")>>), Raise(Name("KeyboardInterrupt"))>>),
         None, <<"say", "interrupt">>)

\* while True: pass
Spinner ==
    File(TRUE, <<Code, Code>>, None, Module(<<While(Bool("True"), <<Pass>>)>>),
         None, <<"spin">>)

\* forty lines of code, one of them too long, before the header comments;
\* rebinds sys.stdout before printing
LateHeader ==
    File(TRUE,
         [i \in 1..43 |-> IF i = 7 THEN Line(101, {})
                          ELSE IF i > 40 THEN Header[i - 40] ELSE Code],
         None,
         Module(<<Import(<<"sys">>),
                  Assign(<<Attribute(Name("sys"), "stdout")>>,
                         Call(21, Name("open"), <<Str("log.txt"), Str("w")>>)),
                  PrintStmt(31, <<Str("hi")>>)>>),
         None, <<"hijack", "say">>)

\* prints a greeting, reads a name without keeping it, reads and keeps a
\* favorite color, branches on three colors and an else, loops three times
\* printing the index; no comment lines
Minimal ==
    File(TRUE, [i \in 1..12 |-> Code], None,
         Module(<<PrintStmt(11, <<Str("Hello, I am a chatbot!")>>),
                  Expr(Input(21, "What is your name? ")),
                  Assign(<<Name("color")>>, Input(31, "What is your favorite color? ")),
                  If(Eq(Name("color"), Str("blue")),
                     <<PrintStmt(51, <<Str("Like the sky.")>>)>>,
                     <<If(Eq(Name("color"), Str("red")),
                          <<PrintStmt(71, <<Str("Like fire.")>>)>>,
                          <<If(Eq(Name("color"), Str("green")),
                               <<PrintStmt(91, <<Str("Like grass.")>>)>>,
                               <<PrintStmt(101, <<Str("Nice color.")>>)>>)>>)>>),
                  For(Name("i"), Call(111, Name("range"), <<Num("3")>>),
                      <<PrintStmt(121, <<Name("i")>>)>>)>>),
         None, <<"say", "input", "input", "say", "say", "say", "say">>)

Catalogue ==
    {Chatbot, Converter, Leaver, Unparsable, Empty, Undecodable, Asker, Interrupter,
     Spinner, LateHeader, Minimal}

-----------------------------------------------------------------------------
(* Grading a directory of submissions *)

MaxFiles == 2

FileNames == Range(SubSeq(SortedNames, 1, MaxFiles))

Init ==
    /\ builtins_input = "builtin input"
    /\ sys_stdout = "console"
    /\ sys_path = <<"scriptdir">>
    /\ h_args = [filename |-> "", inputs |-> <<>>, pad_extra |-> 0, pad_value |-> None]
    /\ hpc = "idle"
    /\ side_effect_values = <<>>
    /\ mock_idx = 0
    /\ call_count = 0
    /\ buf = <<>>
    /\ error = None
    /\ patch_original = None
    /\ old_target = None
    /\ prog = <<>>
    /\ ip = 1
    /\ served = <<>>
    /\ outcome = None
    /\ result = None
    /\ entry_env = [input |-> builtins_input, stdout |-> sys_stdout, path |-> sys_path]
    /\ prev = None
    /\ sys_modules = {}
    /\ fs \in [FileNames -> {None} \cup {Some(f) : f \in Catalogue}]
    /\ argv_all \in BOOLEAN
    /\ shadow \in IF ~argv_all /\ IsNone(fs["chatbot.py"])
                  THEN {None, Some(Chatbot)} ELSE {None}
    /\ subject = Module(<<>>)
    /\ found = None
    /\ pc = "main"
    /\ files = <<>>
    /\ fi = 0
    /\ ri = 0
    /\ total_items = 0
    /\ passed_items = 0
    /\ all_results = <<>>
    /\ console = <<>>

Next ==
    \/ Main
    \/ GradeFileStart
    \/ RubricStep
    \/ RuntimeCall
    \/ SubmissionStep
    \/ HarnessExit
    \/ RuntimeReturn
    \/ Report

Spec == Init /\ [][Next]_vars

-----------------------------------------------------------------------------
(* Direct calls of run_program_with_inputs with arbitrary arguments, one     *)
(* after the other in the same interpreter.                                  *)

SeqsUpTo(S, n) == UNION {[1..k -> S] : k \in 0..n}

\* a file of which only the run matters
RunFile(ops) == File(TRUE, <<>>, None, <<>>, None, ops)

BrokenFile == File(TRUE, <<>>, Some("invalid syntax"), <<>>, Some("SyntaxError"), <<>>)

HarnessFiles ==
    {None, Some(BrokenFile)} \cup {Some(RunFile(ops)) : ops \in SeqsUpTo(HarnessOps, MaxOps)}

InputLists == {SubSeq(sample_inputs, 1, k) : k \in 0..MaxInputs}

InitHarness ==
    /\ builtins_input = "builtin input"
    /\ sys_stdout = "console"
    /\ sys_path = <<"scriptdir">>
    /\ h_args \in [filename : {"chatbot.py"}, inputs : InputLists,
                    pad_extra : (-1)..MaxPad, pad_value : {None, Some("pad")}]
    /\ hpc = "idle"
    /\ side_effect_values = <<>>
    /\ mock_idx = 0
    /\ call_count = 0
    /\ buf = <<>>
    /\ error = None
    /\ patch_original = None
    /\ old_target = None
    /\ prog = <<>>
    /\ ip = 1
    /\ served = <<>>
    /\ outcome = None
    /\ result = None
    /\ entry_env = [input |-> builtins_input, stdout |-> sys_stdout, path |-> sys_path]
    /\ prev = None
    /\ sys_modules = {}
    /\ fs \in [{"chatbot.py"} -> HarnessFiles]
    /\ shadow = None
    /\ subject = Module(<<>>)
    /\ found = None
    /\ pc = "direct"
    /\ argv_all = FALSE
    /\ files = <<>>
    /\ fi = 0
    /\ ri = 0
    /\ total_items = 0
    /\ passed_items = 0
    /\ all_results = <<>>
    /\ console = <<>>

DirectCall ==
    /\ pc = "direct"
    /\ hpc \in {"idle", "returned", "propagated"}
    /\ prev' = IF hpc = "idle" THEN None ELSE Some([how |-> hpc, result |-> result])
    /\ EnterHarness(h_args.filename, h_args.inputs, h_args.pad_extra, h_args.pad_value)
    /\ UNCHANGED <<fvars, gvars>>

NextHarness == DirectCall \/ SubmissionStep \/ HarnessExit

SpecHarness == InitHarness /\ [][NextHarness]_vars

SpecHarnessFair ==
    /\ InitHarness
    /\ [][NextHarness]_vars
    /\ WF_vars(SubmissionStep)
    /\ WF_vars(HarnessExit)

-----------------------------------------------------------------------------
(* The structural analysis applied to conditionals of bounded nesting *)

MaxChain == 4

Stmt == PrintStmt(1, <<Str("x")>>)

Cond == Name("c")

\* the If statements nested at most d deep through their else-branches, and
\* the else-branches they can have
RECURSIVE IfAt(_)
OrelseAt(d) ==
    {<<>>, <<Stmt>>, <<Stmt, Stmt>>}
    \cup (IF d = 0 THEN {}
          ELSE UNION {{<<i>>, <<i, Stmt>>, <<Stmt, i>>} : i \in IfAt(d)})

IfAt(d) == {If(Cond, b, e) : b \in {<<Stmt>>, <<Stmt, Stmt>>}, e \in OrelseAt(d - 1)}

InitAst ==
    /\ builtins_input = "builtin input"
    /\ sys_stdout = "console"
    /\ sys_path = <<"scriptdir">>
    /\ h_args = [filename |-> "", inputs |-> <<>>, pad_extra |-> 0, pad_value |-> None]
    /\ hpc = "idle"
    /\ side_effect_values = <<>>
    /\ mock_idx = 0
    /\ call_count = 0
    /\ buf = <<>>
    /\ error = None
    /\ patch_original = None
    /\ old_target = None
    /\ prog = <<>>
    /\ ip = 1
    /\ served = <<>>
    /\ outcome = None
    /\ result = None
    /\ entry_env = [input |-> builtins_input, stdout |-> sys_stdout, path |-> sys_path]
    /\ prev = None
    /\ sys_modules = {}
    /\ fs = [f \in {"chatbot.py"} |-> None]
    /\ shadow = None
    /\ subject \in {Module(<<i>>) : i \in IfAt(MaxChain)}
    /\ found = None
    /\ pc = "analysis"
    /\ argv_all = FALSE
    /\ files = <<>>
    /\ fi = 0
    /\ ri = 0
    /\ total_items = 0
    /\ passed_items = 0
    /\ all_results = <<>>
    /\ console = <<>>

\* lines 127-149 applied to the parsed submission
CheckAst ==
    /\ pc = "analysis"
    /\ IsNone(found)
    /\ found' = Some(ast_flags(subject))
    /\ UNCHANGED <<fs, shadow, subject>>
    /\ UNCHANGED <<hvars, gvars>>

NextAst == CheckAst

SpecAst == InitAst /\ [][NextAst]_vars

-----------------------------------------------------------------------------
(* build_analysis applied to short programs of imports, choice calls and    *)
(* input calls                                                              *)

MaxStmts == 2

\* the imports a statement can be
ImportStmts ==
    {Import(<<"random">>), Import(<<"math">>), ImportFrom("random", <<"choice">>),
     ImportFrom("random", <<"*">>), ImportFrom("secrets", <<"choice">>)}

\* the calls of a function named choice the statement at position k can be
ChoiceStmts(k) ==
    {Expr(Call(k, Attribute(Name("random"), "choice"), <<Name("xs")>>)),
     Expr(Call(k, Name("choice"), <<Name("xs")>>)),
     Expr(Call(k, Attribute(Name("secrets"), "choice"), <<Name("xs")>>))}

\* statements at position k that keep what input() returned in a variable:
\* x = input(..), x = input(..).strip(), x: str = input(..)
SavingStmts(k) ==
    {Assign(<<Name("x")>>, Input(k, "q")),
     Assign(<<Name("x")>>, Method(k + 10, Input(k, "q"), "strip")),
     AnnAssign(Name("x"), Name("str"), <<Input(k, "q")>>)}

\* statements at position k that call input() and drop the value:
\* input(..), print(input(..))
DiscardingStmts(k) == {Expr(Input(k, "q")), PrintStmt(k + 10, <<Input(k, "q")>>)}

\* assignments without a call of input: x = "hi", x: str
PlainStmts == {Assign(<<Name("x")>>, Str("hi")), AnnAssign(Name("x"), Name("str"), <<>>)}

StmtsAt(k) ==
    ImportStmts \cup ChoiceStmts(k) \cup SavingStmts(k) \cup DiscardingStmts(k)
    \cup PlainStmts

Programs ==
    {Module(b) : b \in UNION {{q \in [1..n -> UNION {StmtsAt(k) : k \in 1..n}] :
                                  \A k \in 1..n : q[k] \in StmtsAt(k)} : n \in 0..MaxStmts}}

InitInfo ==
    /\ builtins_input = "builtin input"
    /\ sys_stdout = "console"
    /\ sys_path = <<"scriptdir">>
    /\ h_args = [filename |-> "", inputs |-> <<>>, pad_extra |-> 0, pad_value |-> None]
    /\ hpc = "idle"
    /\ side_effect_values = <<>>
    /\ mock_idx = 0
    /\ call_count = 0
    /\ buf = <<>>
    /\ error = None
    /\ patch_original = None
    /\ old_target = None
    /\ prog = <<>>
    /\ ip = 1
    /\ served = <<>>
    /\ outcome = None
    /\ result = None
    /\ entry_env = [input |-> builtins_input, stdout |-> sys_stdout, path |-> sys_path]
    /\ prev = None
    /\ sys_modules = {}
    /\ fs = [f \in {"chatbot.py"} |-> None]
    /\ shadow = None
    /\ subject \in Programs
    /\ found = None
    /\ pc = "build_analysis"
    /\ argv_all = FALSE
    /\ files = <<>>
    /\ fi = 0
    /\ ri = 0
    /\ total_items = 0
    /\ passed_items = 0
    /\ all_results = <<>>
    /\ console = <<>>

\* lines 251-361 applied to the parsed submission
BuildAnalysis ==
    /\ pc = "build_analysis"
    /\ IsNone(found)
    /\ found' = Some(analysis(subject))
    /\ UNCHANGED <<fs, shadow, subject>>
    /\ UNCHANGED <<hvars, gvars>>

NextInfo == BuildAnalysis

SpecInfo == InitInfo /\ [][NextInfo]_vars

-----------------------------------------------------------------------------
(* Properties of the harness *)

HarnessLeft == hpc \in {"returned", "propagated"}

IsFault(o) == ~IsNone(o) /\ o[1].name # "SystemExit"

Executed(op) == \E i \in 1..Len(prog) : i < ip /\ prog[i] = op

\* C1 as stated: after the call, builtins.input, sys.stdout and every other
\* piece of process-wide state the harness touched (sys.path) are what they were
\* before the call.
C1_AsStated ==
    HarnessLeft =>
        /\ builtins_input = entry_env.input
        /\ sys_stdout = entry_env.stdout
        /\ sys_path = entry_env.path

\* C1 (amended): on every way out of run_program_with_inputs (normal end,
\* SystemExit, caught fault, propagating exception) builtins.input and
\* sys.stdout are what they were before the call and nothing stays saved; of
\* sys.path only a leading "" may have been added, and only by a call that
\* found none, so a call that follows another one leaves sys.path as it found it.
C1_Restored ==
    HarnessLeft =>
        /\ builtins_input = entry_env.input
        /\ sys_stdout = entry_env.stdout
        /\ IsNone(patch_original) /\ IsNone(old_target)
        /\ \/ sys_path = entry_env.path
           \/ /\ \A i \in 1..Len(entry_env.path) : entry_env.path[i] # ""
              /\ sys_path = <<"">> \o entry_env.path
        /\ ~IsNone(prev) => sys_path = entry_env.path

\* a second call has ended in a caught fault raised after the submission had
\* rebound sys.stdout itself
C1_Witness ==
    /\ hpc = "returned"
    /\ ~IsNone(prev)
    /\ ~IsNone(error)
    /\ Executed("hijack")

\* C2 as stated: whatever the submission raises (other than SystemExit) ends
\* up as trace text in the returned tuple and never leaves the harness.
C2_AsStated ==
    (HarnessLeft /\ IsFault(outcome)) =>
        /\ hpc = "returned"
        /\ result = Some([out |-> buf, err |-> Some(format_exc(outcome[1])),
                          input_calls |-> call_count])

\* C2 (amended): an uncaught exception deriving from Exception raised while the
\* submission runs is returned as trace text, with the output captured so far
\* and the number of input requests, and does not leave the harness.
C2_FaultCaptured ==
    (HarnessLeft /\ IsFault(outcome) /\ outcome[1].isException) =>
        /\ hpc = "returned"
        /\ result = Some([out |-> buf, err |-> Some(format_exc(outcome[1])),
                          input_calls |-> call_count])

\* a ValueError raised after something was printed
C2_Witness ==
    /\ hpc = "returned"
    /\ outcome = Some(Exc("ValueError"))
    /\ Len(buf) > 0

\* C3: the values the submission's input requests received, in call order:
\* request k gets inputs[k] for k <= n and the filler for n < k <= n + p
\* (filler: pad_value if given, else the last scripted value, else ""); all of
\* the first n + p requests are served; the returned count is the number of
\* requests issued, served or not.
C3_ScriptedThenFiller ==
    LET inputs == h_args.inputs
        n == Len(inputs)
        p == IF h_args.pad_extra > 0 THEN h_args.pad_extra ELSE 0
        filler == IF ~IsNone(h_args.pad_value) THEN h_args.pad_value[1]
                  ELSE IF n > 0 THEN inputs[n] ELSE ""
        unserved == IF outcome = Some(Exc("StopIteration")) THEN 1 ELSE 0
    IN  hpc # "idle" =>
        /\ Len(served) <= n + p
        /\ \A k \in 1..Len(served) :
              served[k] = IF k <= n THEN inputs[k] ELSE filler
        /\ unserved = 1 => Len(served) = n + p
        /\ hpc = "returned" => result[1].input_calls = Len(served) + unserved

\* two scripted values, no pad_value, and two requests served by the filler
C3_Witness ==
    /\ hpc = "returned"
    /\ Len(h_args.inputs) = 2
    /\ IsNone(h_args.pad_value)
    /\ Len(served) = 4
    /\ result[1].input_calls = 5

AtAskForever == ip <= Len(prog) /\ prog[ip] = "ask_forever"

\* C5 as stated: once a submission is in an unbounded sequence of input
\* requests, run_program_with_inputs never returns.
C5_AsStated == AtAskForever => hpc # "returned"

\* C5 (amended): a submission in an unbounded sequence of input requests does
\* not hang the harness: the request after the scripted values and the padding
\* raises StopIteration in the submission, and unless the submission handles it
\* the run ends and run_program_with_inputs returns the trace, with a count of
\* one more than the values supplied.
C5_ExhaustionReturns ==
    (hpc = "running" /\ AtAskForever) ~>
        /\ hpc = "returned"
        /\ AtAskForever
        /\ error = Some(format_exc(Exc("StopIteration")))
        /\ result[1].input_calls = Len(side_effect_values) + 1

\* the unbounded requester has been stopped after scripted values and padding
C5_Witness ==
    /\ hpc = "returned"
    /\ AtAskForever
    /\ Len(h_args.inputs) > 0
    /\ h_args.pad_extra > 0
    /\ result[1].input_calls = Len(h_args.inputs) + h_args.pad_extra + 1


-----------------------------------------------------------------------------
(* Properties of a grading pass *)

\* grade_file is at work on files[fi]
Grading == pc \in {"rubric", "runtime"}

\* the three results of check_runtime_behavior are in for files[fi]
DynamicDone == pc = "rubric" /\ Len(all_results) >= 7

\* every rubric item of files[fi] has been evaluated
PassComplete == pc = "rubric" /\ ri > Len(RUBRIC)

\* files[fi] exists, can be read and parses
Parseable(f) ==
    /\ ~IsNone(fs[f])
    /\ fs[f][1].readable
    /\ Len(fs[f][1].lines) > 0
    /\ IsNone(fs[f][1].syntax)

\* where the results of the structural checks (check_ast_structures and the
\* checks built on build_analysis) and of the dynamic checks stand among the
\* results of a pass
StructuralPositions == {4} \cup 9..22
DynamicPositions == 5..7

\* the results of the checks that never run the submission, in rubric order
StaticResults(f) ==
    rubric_func("exists", f) \o rubric_func("header", f) \o rubric_func("linelen", f)
    \o rubric_func("ast", f) \o rubric_func("comments", f)
    \o rubric_func("input_both", f) \o rubric_func("vars_strings", f)
    \o rubric_func("lists_random", f) \o rubric_func("in_op", f)
    \o rubric_func("str_methods", f) \o rubric_func("for_loop", f)
    \o rubric_func("nested_if", f) \o rubric_func("bool_logic_cmp_print", f)

StaticIndex(i) == IF i <= 4 THEN i ELSE i - 3

QuestionMarks(out) == Cardinality({i \in 1..Len(out) : out[i] = "?"})

EchoesAnInput(out) ==
    \E i \in 1..Len(out) : Lower(out[i]) \in Range(sample_inputs)

\* C4: a run that ends with SystemExit returns no fault trace; "Program
\* executes without crashing" passes, and the question-count and echo checks
\* are decided by the output captured up to the exit and the number of inputs
\* requested.
C4_ExitIsSuccess ==
    (DynamicDone /\ outcome = Some(Exc("SystemExit"))) =>
        /\ IsNone(result[1].err)
        /\ result[1].out = buf
        /\ prog[ip] = "exit"
        /\ all_results[5] = CheckResult(<<"Program executes without crashing">>, TRUE, <<>>)
        /\ all_results[6].passed = (QuestionMarks(buf) >= 3 \/ call_count >= 3)
        /\ all_results[7].passed = EchoesAnInput(buf)

C4_Witness ==
    /\ DynamicDone
    /\ outcome = Some(Exc("SystemExit"))
    /\ Len(buf) = 2
    /\ ip < Len(prog)
    /\ all_results[5].passed
    /\ ~all_results[6].passed
    /\ all_results[7].passed

\* the run of files[fi] is over: its results are in, or the fault left the grader
RunOver == DynamicDone \/ (pc = "crashed" /\ hpc = "propagated")

FaultConsequences ==
    /\ DynamicDone
    /\ all_results[5] = CheckResult(<<"Program executes without crashing">>, FALSE,
                                    <<"Program crashed.">> \o format_exc(outcome[1]))
    /\ all_results[6] = CheckResult(<<"Asks at least 3 questions">>, FALSE,
                                    <<"Program did not complete execution.">>)
    /\ all_results[7] = CheckResult(<<"Uses the user's input in a response">>, FALSE,
                                    <<"Program did not complete execution.">>)
    /\ LET expected == StaticResults(files[fi])
       IN  \A i \in 1..Len(all_results) :
               i \notin DynamicPositions =>
                   all_results[i].passed = expected[StaticIndex(i)].passed

\* C6 as stated: whatever fault ends the run of a parseable submission, the
\* three dynamic results fail with their messages and the other results are
\* those the text alone determines.
C6_AsStated ==
    (RunOver /\ Parseable(files[fi]) /\ IsFault(outcome)) => FaultConsequences

\* C6: when the run of a parseable submission ends in a fault that derives
\* from Exception, the three dynamic results fail ("Program executes without
\* crashing" with the trace, the other two with "Program did not complete
\* execution.") and every other result of the pass has the passed flag that
\* the text alone determines.
C6_FaultFailsDynamicOnly ==
    (RunOver /\ Parseable(files[fi]) /\ IsFault(outcome) /\ outcome[1].isException)
        => FaultConsequences

C6_Witness ==
    /\ PassComplete
    /\ Parseable(files[fi])
    /\ outcome = Some(Exc("ValueError"))
    /\ Len(all_results) = 22
    /\ all_results[2].passed
    /\ ~all_results[5].passed

\* C7: for an existing file whose text does not parse, the result of
\* check_ast_structures and every result built on build_analysis fail with a
\* message holding the parser's diagnostic; the existence check passes; and
\* the header, line-length and comment results are decided by the raw text.
C7_ParseFailure ==
    (Grading /\ ~IsNone(fs[files[fi]]) /\ fs[files[fi]][1].readable
        /\ ~IsNone(fs[files[fi]][1].syntax)) =>
        LET lines == fs[files[fi]][1].lines
            diag == fs[files[fi]][1].syntax[1]
            top == {i \in 1..Len(lines) : i <= HeaderLines}
            marked(m, among) == \E i \in among : m \in lines[i].marks
        IN  \A i \in 1..Len(all_results) :
               /\ i = 1 => all_results[i].passed
               /\ i \in StructuralPositions =>
                     /\ ~all_results[i].passed
                     /\ diag \in Range(all_results[i].message)
               /\ i \in {2, 3, 8} => diag \notin Range(all_results[i].message)
               /\ i = 2 => all_results[i].passed =
                               /\ marked("title", top) \/ marked("hash", top)
                               /\ marked("name", top)
                               /\ marked("date", top)
               /\ i = 3 => all_results[i].passed =
                               \A k \in 1..Len(lines) : lines[k].len <= LineLimit
               /\ i = 8 => all_results[i].passed =
                               \/ marked("comment", 1..Len(lines))
                               \/ marked("triple_whole", 1..Len(lines))
                               \/ \E k \in 1..Len(lines) :
                                     /\ "triple_open" \in lines[k].marks
                                     /\ marked("triple_close", (k + 1)..Len(lines))

C7_Witness ==
    /\ PassComplete
    /\ ~IsNone(fs[files[fi]])
    /\ ~IsNone(fs[files[fi]][1].syntax)
    /\ Len(all_results) = 22
    /\ all_results[1].passed
    /\ ~all_results[2].passed
    /\ all_results[3].passed
    /\ all_results[8].passed
    /\ ~all_results[4].passed
    /\ ~all_results[22].passed

\* C8 as stated, in its first part: while an absent file is graded, no
\* CheckResult of the pass has passed.
C8_AsStated ==
    (Grading /\ IsNone(fs[files[fi]])) =>
        \A i \in 1..Len(all_results) : ~all_results[i].passed

\* C9 as stated: nothing leaves grade_file, and once main is done every file
\* of the batch has its summary line.
C9_AsStated ==
    /\ pc # "crashed"
    /\ pc = "done" =>
          \A k \in 1..Len(files) :
              \E j \in 1..Len(console) :
                  console[j].kind = "score" /\ console[j].text = <<files[k]>>

-----------------------------------------------------------------------------
(* Properties of the structural analysis *)

\* if c: s / elif c: s / elif c: s / else: W
Chained(W) == Module(<<If(Cond, <<Stmt>>, <<If(Cond, <<Stmt>>, <<If(Cond, <<Stmt>>, W)>>)>>)>>)

\* C10 as stated: the chain with a one-statement else has the feature, the
\* chain with a two-statement else has not.
C10_AsStated ==
    ~IsNone(found) =>
        /\ subject = Chained(<<Stmt>>) => found[1].has_if_elif_else_with_two_elifs
        /\ subject = Chained(<<Stmt, Stmt>>) => ~found[1].has_if_elif_else_with_two_elifs

\* C10: the chain if/elif/elif/else with single-statement branches has the
\* chained-conditional feature, and it keeps the feature when the else body
\* is two statements the first of which is not a conditional.
C10_ChainWithElse ==
    ~IsNone(found) =>
        /\ subject = Chained(<<Stmt>>) => found[1].has_if_elif_else_with_two_elifs
        /\ subject = Chained(<<Stmt, Stmt>>) => found[1].has_if_elif_else_with_two_elifs

C10_Witness ==
    /\ ~IsNone(found)
    /\ subject = Chained(<<Stmt, Stmt>>)
    /\ found[1].has_if_elif_else_with_two_elifs

\* the number of links of the chain an If starts: else-branches that are
\* exactly one statement, itself an If
RECURSIVE Links(_)
Links(n) ==
    IF Len(orelse(n)) = 1 /\ isinstance(orelse(n)[1], "If")
    THEN 1 + Links(orelse(n)[1])
    ELSE 0

\* the last conditional of the chain an If starts
RECURSIVE LastOfChain(_)
LastOfChain(n) ==
    IF Len(orelse(n)) = 1 /\ isinstance(orelse(n)[1], "If")
    THEN LastOfChain(orelse(n)[1])
    ELSE n

SingleConditional(stmts) == Len(stmts) = 1 /\ isinstance(stmts[1], "If")

\* C11 as stated: the feature is found exactly when some If starts a chain of
\* at least two links whose last conditional has an else-branch that is not a
\* single conditional statement (an else-branch of several statements counts,
\* whatever its first statement is).
C11_AsStated ==
    ~IsNone(found) =>
        found[1].has_if_elif_else_with_two_elifs =
            \E n \in {x \in Range(walk(subject)) : isinstance(x, "If")} :
                /\ Links(n) >= 2
                /\ Len(orelse(LastOfChain(n))) > 0
                /\ ~SingleConditional(orelse(LastOfChain(n)))

-----------------------------------------------------------------------------
(* Properties of build_analysis *)

Stmts == body(subject)

HasStmt(S) == \E k \in 1..Len(Stmts) : Stmts[k] \in S

QualifiedChoiceCall ==
    \E k \in 1..Len(Stmts) :
        Stmts[k] = Expr(Call(k, Attribute(Name("random"), "choice"), <<Name("xs")>>))

BareChoiceCall ==
    \E k \in 1..Len(Stmts) : Stmts[k] = Expr(Call(k, Name("choice"), <<Name("xs")>>))

\* C12 as stated: the validated random-selection feature is found exactly
\* when a call is accompanied by the import that matches its form:
\* random.choice(..) with "import random", or choice(..) with "from random
\* import choice" (or "from random import *").
C12_AsStated ==
    ~IsNone(found) =>
        found[1].random_choice_ok =
            \/ QualifiedChoiceCall /\ HasStmt({Import(<<"random">>)})
            \/ BareChoiceCall /\ HasStmt({ImportFrom("random", <<"choice">>),
                                          ImportFrom("random", <<"*">>)})

InputCalls == Cardinality({k \in 1..Len(Stmts) : Stmts[k] \in SavingStmts(k) \cup DiscardingStmts(k)})

\* C13: has_input_saved is found exactly when some call of input lies inside
\* the value of a plain or annotated assignment, has_input_unsaved exactly
\* when some call lies outside every such value; with no call of input both
\* are false, and with one or more at least one of them is true.
C13_SavedAndUnsaved ==
    ~IsNone(found) =>
        /\ found[1].has_input_saved = (\E k \in 1..Len(Stmts) : Stmts[k] \in SavingStmts(k))
        /\ found[1].has_input_unsaved =
               (\E k \in 1..Len(Stmts) : Stmts[k] \in DiscardingStmts(k))
        /\ InputCalls = 0 => ~found[1].has_input_saved /\ ~found[1].has_input_unsaved
        /\ InputCalls >= 1 => found[1].has_input_saved \/ found[1].has_input_unsaved

\* both flags at once: a wrapped call kept in a variable, and a call dropped
C13_Witness ==
    /\ ~IsNone(found)
    /\ HasStmt({Assign(<<Name("x")>>, Method(11, Input(1, "q"), "strip"))})
    /\ InputCalls = 2
    /\ found[1].has_input_saved
    /\ found[1].has_input_unsaved

-----------------------------------------------------------------------------
(* Properties of the report *)

ScoreLines == {j \in 1..Len(console) : console[j].kind = "score"}

\* the positions of the results that have passed
PassedPositions == {i \in 1..Len(all_results) : all_results[i].passed}

-----------------------------------------------------------------------------
(* Repeating a run *)

\* C15 as stated: when a call made again with the same submission and the
\* same arguments is left, it has ended the way the previous one did and has
\* returned the same (output, error, input_calls).
C15_AsStated ==
    (HarnessLeft /\ ~IsNone(prev)) =>
        /\ prev[1].how = hpc
        /\ prev[1].result = result

\* grade_file has just returned: all_results are the results of its pass and
\* the console ends with its report
Reported == pc \in {"grade_file", "done"} /\ fi >= 2

FailingResults == SelectSeq(all_results, LAMBDA r : ~r.passed)

\* C16: once a pass has been reported, the console ends with the summary line
\* and, when some result failed, the line "Hints:" followed by the message of
\* each failing CheckResult, one line per failing result, in the order of the
\* results; nothing of a passing result is among them and no failing result
\* is left out.
C16_HintsInOrder ==
    Reported =>
        LET n == Len(FailingResults)
            last == Len(console)
        IN  /\ last >= n + 1
            /\ \A i \in 1..n :
                  console[last - n + i] = Entry("hint", FailingResults[i].message, FALSE, 0, 0)
            /\ n > 0 => /\ console[last - n].kind = "hints"
                        /\ console[last - n - 1].kind = "score"
            /\ n = 0 => console[last].kind = "score"

\* a report after a pass with failing results and with passing results that
\* carry a message of their own
C16_Witness ==
    /\ Reported
    /\ Len(FailingResults) \in 2..21
    /\ \E i \in 1..Len(all_results) : all_results[i].passed /\ Len(all_results[i].message) > 0
    /\ \E i, j \in 1..Len(FailingResults) :
          i < j /\ FailingResults[i].message # FailingResults[j].message

\* a pass over files[fi] has ended, by returning or by an exception
PassEnded == PassComplete \/ Reported \/ (pc = "crashed" /\ fi >= 1)

\* C17 as stated: every pass that has ended has produced exactly 22
\* CheckResults, total_items is 22, and passed_items is the number of results
\* that have passed, between 0 and 22.
C17_AsStated ==
    PassEnded =>
        /\ Len(all_results) = 22
        /\ total_items = 22
        /\ passed_items = Cardinality(PassedPositions)
        /\ passed_items \in 0..total_items

====
